---- MODULE Spec2Model ----
(***************************************************************************)
(* Bookmark store of tastie: the bookmark table with its (user_id, url)    *)
(* unique constraint, the Tag / BookmarkTag index written by               *)
(* BookmarkService._sync_normalized_tags, the FTS mirror kept by triggers, *)
(* the request handlers that create, update and delete bookmarks, each on  *)
(* its own database session, and the read side: visibility filters, the   *)
(* bookmark query, cursors and pages.                                      *)
(*                                                                         *)
(* Storage is SQLite: a write transaction holds the database write lock    *)
(* from its first write statement to its commit, so each transaction is    *)
(* one step; a handler that commits twice is two steps, and the reads a    *)
(* handler does before it writes are a step of their own.                  *)
(***************************************************************************)
EXTENDS Integers, Sequences, FiniteSets, TLC

\* ------------------------------------------------------------------ bounds
MaxId == 2          \* bookmark ids 1..MaxId: at most MaxId rows at a time
MaxClock == 1       \* utc_now() takes the values 0..MaxClock

\* ------------------------------------------------------------------ inputs
Sessions == {"s1", "s2"}
Users == {1, 2}
Urls == {"u1", "u2"}
SP == " "

\* visibility values as the forms post them
VisInputs == {"public", "authenticated", "private", "bogus"}

None == [none |-> TRUE]
NoId == -1          \* an absent (None) user or bookmark id

\* ------------------------------------------------------------- models.py
PUBLIC == "public"
AUTHENTICATED == "authenticated"
PRIVATE == "private"
ALL == {PUBLIC, AUTHENTICATED, PRIVATE}

\* str.strip(): drop leading and trailing whitespace
RECURSIVE lstrip(_)
lstrip(s) == IF s # <<>> /\ Head(s) = SP THEN lstrip(Tail(s)) ELSE s

RECURSIVE rstrip(_)
rstrip(s) ==
    IF s # <<>> /\ s[Len(s)] = SP THEN rstrip(SubSeq(s, 1, Len(s) - 1)) ELSE s

strip(s) == rstrip(lstrip(s))

\* str.split(): the maximal runs of non-whitespace characters, in order
RECURSIVE split_from(_, _, _)
split_from(s, cur, acc) ==
    IF s = <<>>
    THEN IF cur = <<>> THEN acc ELSE Append(acc, cur)
    ELSE IF Head(s) = SP
         THEN split_from(Tail(s), <<>>, IF cur = <<>> THEN acc ELSE Append(acc, cur))
         ELSE split_from(Tail(s), Append(cur, Head(s)), acc)

split(s) == split_from(s, <<>>, <<>>)

parse_tags(s) == IF s # <<>> THEN split(s) ELSE <<>>

Range(f) == {f[i] : i \in DOMAIN f}

SetMax(S) == CHOOSE x \in S : \A y \in S : y <= x

\* ------------------------------------------------------------------ state
VARIABLES
    bookmarks,      \* committed bookmarks table: id -> row
    tags,           \* committed tags table: tags[i] is the name of Tag id i
    bookmark_tags,  \* committed bookmark_tags table: set of <<bookmark_id, tag_id>>
    fts,            \* bookmarks_fts index: rowid -> indexed tags text
    now,            \* the clock utc_now() reads
    pc,             \* per session: where its request handler stands
    arg,            \* per session: the arguments of the service call
    obj,            \* per session: the Bookmark object the session holds
    result,         \* per session: what the handler returned
    trav,           \* a client walking the pages of one listing
    call,           \* the last single list_bookmarks_paginated call and its outcome
    users,          \* committed users table: users[i] is the row of User id i
    invite_codes    \* committed invite_codes table: code -> used_by_user_id

store == <<bookmarks, tags, bookmark_tags, fts>>
sess == <<pc, arg, obj, result>>
reader == <<trav, call>>
accounts == <<users, invite_codes>>
vars == <<bookmarks, tags, bookmark_tags, fts, now, pc, arg, obj, result, trav, call,
          users, invite_codes>>

\* ------------------------------------------------------- database schema
\* UniqueConstraint("user_id", "url", name="uq_user_url")
uq_user_url_off(rows) == TRUE

uq_user_url(rows) ==
    \A i, j \in DOMAIN rows :
        (rows[i].user_id = rows[j].user_id /\ rows[i].url = rows[j].url) => i = j

\* the engine is created without PRAGMA foreign_keys=ON, and SQLite leaves
\* foreign keys unenforced unless it is set on the connection
foreign_keys == FALSE

\* ForeignKey("bookmarks.id", ondelete="CASCADE") on bookmark_tags.bookmark_id
on_delete_cascade(bt, id) ==
    IF foreign_keys THEN {p \in bt : p[1] # id} ELSE bt

\* INTEGER PRIMARY KEY rowid of a new row: one more than the largest in use
next_rowid(rows) == IF DOMAIN rows = {} THEN 1 ELSE SetMax(DOMAIN rows) + 1

\* triggers bookmarks_ai / bookmarks_au / bookmarks_ad
bookmarks_ai(idx, id, row) ==
    [i \in DOMAIN idx \cup {id} |-> IF i = id THEN row.tags ELSE idx[i]]

bookmarks_ad(idx, id) == [i \in DOMAIN idx \ {id} |-> idx[i]]

\* a schema without the AFTER UPDATE trigger
bookmarks_au_keep(idx, id, row) == idx

bookmarks_au(idx, id, row) == bookmarks_ai(bookmarks_ad(idx, id), id, row)

\* ------------------------------------------------------- bookmark_service
\* a service that stores the visibility as given
normalize_visibility_off(v) == v

normalize_visibility(v) == IF v \notin ALL THEN PUBLIC ELSE v

\* a create_bookmark without its pre-check
existing_bookmark_never(rows, user_id, url) == FALSE

\* select(Bookmark).where(user_id == ...).where(url == ...) of create_bookmark
existing_bookmark(rows, user_id, url) ==
    \E i \in DOMAIN rows : rows[i].user_id = user_id /\ rows[i].url = url

TagId(tg, name) == CHOOSE i \in DOMAIN tg : tg[i] = name

\* the loop of _sync_normalized_tags over tag_names, on the pair <<tags, bookmark_tags>>
RECURSIVE sync_loop(_, _, _, _)
sync_loop(tg, bt, bookmark_id, names) ==
    IF names = <<>> THEN <<tg, bt>>
    ELSE LET name == Head(names)
             tg1  == IF name \in Range(tg) THEN tg ELSE Append(tg, name)
             bt1  == bt \cup {<<bookmark_id, TagId(tg1, name)>>}
         IN  sync_loop(tg1, bt1, bookmark_id, Tail(names))

\* a sync that rebuilds both tables from nothing
sync_normalized_tags_fresh(tg, bt, bookmark_id, tags_str) ==
    sync_loop(<<>>, {}, bookmark_id, split(tags_str))

sync_normalized_tags(tg, bt, bookmark_id, tags_str) ==
    LET tag_names == split(tags_str)
        cleared   == {p \in bt : p[1] # bookmark_id}
    IN  sync_loop(tg, cleared, bookmark_id, tag_names)

\* ------------------------------------------------------------------- init
Idle == [s \in Sessions |-> "idle"]

Init ==
    /\ bookmarks = <<>>
    /\ tags = <<>>
    /\ bookmark_tags = {}
    /\ fts = <<>>
    /\ now = 0
    /\ pc = Idle
    /\ arg = [s \in Sessions |-> None]
    /\ obj = [s \in Sessions |-> None]
    /\ result = [s \in Sessions |-> "none"]
    /\ trav = [pc |-> "idle"]
    /\ call = [made |-> FALSE]
    /\ users = <<>>
    /\ invite_codes = <<>>

\* get_db_session: leaving `async with async_session()` closes the session,
\* and what its open transaction has written is discarded
rollback_keeps_pending(committed, pending) == pending

\* a rollback that leaves the bookmark row and its index entry behind
rollback_keeps_row(committed, pending) ==
    <<pending[1], committed[2], committed[3], pending[4]>>

rollback(committed, pending) == committed

\* the four tables after a transaction ends
Persist(db) ==
    /\ bookmarks' = db[1]
    /\ tags' = db[2]
    /\ bookmark_tags' = db[3]
    /\ fts' = db[4]

Finish(s, r) ==
    /\ pc' = [pc EXCEPT ![s] = "done"]
    /\ result' = [result EXCEPT ![s] = r]

\* history of the listing client: a write to the bookmarks table committed
\* after it fetched its first page, and the bookmarks of its listing that no
\* write has touched while it is paging
Noticed ==
    /\ trav' = IF trav.pc \in {"paging", "done"} /\ bookmarks' # bookmarks
               THEN [trav EXCEPT
                       !.dirty = TRUE,
                       !.stable = IF trav.pc = "paging"
                                  THEN {i \in @ : /\ i \in DOMAIN bookmarks'
                                                  /\ bookmarks'[i] = bookmarks[i]}
                                  ELSE @]
               ELSE trav
    /\ UNCHANGED call

\* datetime.now(UTC) moves on between requests
Tick ==
    /\ now < MaxClock
    /\ now' = now + 1
    /\ UNCHANGED <<store, sess, reader>>
    /\ UNCHANGED accounts


\* -------------------------------------------------------- create_bookmark
\* lines 100-107: normalise the visibility, look for an existing row
CreateCheck(s, user_id, url, tg, vis) ==
    /\ pc[s] = "idle"
    /\ arg' = [arg EXCEPT ![s] =
                 [user_id |-> user_id, url |-> url, tags |-> tg, given |-> vis,
                  visibility |-> normalize_visibility(vis)]]
    /\ IF existing_bookmark(bookmarks, user_id, url)
       THEN Finish(s, "conflict")
       ELSE /\ pc' = [pc EXCEPT ![s] = "create_insert"]
            /\ UNCHANGED result
    /\ UNCHANGED <<store, now, obj, reader>>
    /\ UNCHANGED accounts

\* lines 109-120: add the row, flush and commit; IntegrityError -> rollback, conflict
CreateInsert(s) ==
    /\ pc[s] = "create_insert"
    /\ LET id  == next_rowid(bookmarks)
           row == [user_id |-> arg[s].user_id, url |-> arg[s].url,
                   tags |-> strip(arg[s].tags),
                   visibility |-> arg[s].visibility, created_at |-> now]
           new == [i \in DOMAIN bookmarks \cup {id} |->
                     IF i = id THEN row ELSE bookmarks[i]]
       IN  IF ~uq_user_url(new)
           THEN /\ Finish(s, "conflict")
                /\ Persist(rollback(store, <<new, tags, bookmark_tags,
                                             bookmarks_ai(fts, id, row)>>))
                /\ UNCHANGED obj
           ELSE /\ id <= MaxId
                /\ bookmarks' = new
                /\ fts' = bookmarks_ai(fts, id, row)
                /\ obj' = [obj EXCEPT ![s] = [id |-> id, row |-> row]]
                /\ pc' = [pc EXCEPT ![s] = "create_sync"]
                /\ UNCHANGED <<tags, bookmark_tags, result>>
    /\ Noticed
    /\ UNCHANGED <<now, arg>>
    /\ UNCHANGED accounts

\* lines 122-125: sync the tag index, commit, return success
CreateSync(s) ==
    /\ pc[s] = "create_sync"
    /\ LET r == sync_normalized_tags(tags, bookmark_tags, obj[s].id, strip(arg[s].tags))
       IN  /\ tags' = r[1]
           /\ bookmark_tags' = r[2]
    /\ Finish(s, "success")
    /\ UNCHANGED <<bookmarks, fts, now, arg, obj, reader>>
    /\ UNCHANGED accounts

\* lines 122-126: the sync or its commit raises an error that is no
\* IntegrityError (the database stays locked, the disk fails): it is not
\* caught, the session is closed and its open transaction rolled back
CreateSyncFail(s) ==
    /\ pc[s] = "create_sync"
    /\ Finish(s, "error")
    /\ UNCHANGED <<store, now, arg, obj, reader>>
    /\ UNCHANGED accounts

\* ------------------------------------------------------------ get_bookmark
get_bookmark(rows, bookmark_id, user_id) ==
    IF bookmark_id \in DOMAIN rows
       /\ (user_id # NoId => rows[bookmark_id].user_id = user_id)
    THEN [id |-> bookmark_id, row |-> rows[bookmark_id]]
    ELSE None

\* routes/bookmarks.py update_bookmark / delete_bookmark: fetch the bookmark
\* scoped to the requesting user, 404 when it is not theirs
Get(s, op, bookmark_id, user_id) ==
    /\ pc[s] = "idle"
    /\ LET b == get_bookmark(bookmarks, bookmark_id, user_id)
       IN  IF b = None
           THEN /\ Finish(s, "not_found")
                /\ UNCHANGED obj
           ELSE /\ obj' = [obj EXCEPT ![s] = b]
                /\ pc' = [pc EXCEPT ![s] = op]
                /\ UNCHANGED result
    /\ arg' = [arg EXCEPT ![s] = [user_id |-> user_id]]
    /\ UNCHANGED <<store, now, reader>>
    /\ UNCHANGED accounts

\* routes/bookmarks.py save_bookmark, lines 207-216: why a save is refused,
\* "" when it goes on to create_bookmark
save_refused_own_only(source, user_id) ==
    IF source = None THEN "not_found"
    ELSE IF source.row.user_id = user_id THEN "own"
    ELSE ""

save_refused(source, user_id) ==
    IF source = None THEN "not_found"
    ELSE IF source.row.user_id = user_id THEN "own"
    ELSE IF source.row.visibility = PRIVATE THEN "forbidden"
    ELSE ""

\* POST /bookmarks/{id}/save: fetch the source whoever owns it, refuse or go on
Save(s, bookmark_id, user_id) ==
    /\ pc[s] = "idle"
    /\ LET source == get_bookmark(bookmarks, bookmark_id, NoId)
           why    == save_refused(source, user_id)
       IN  /\ arg' = [arg EXCEPT ![s] =
                        [user_id |-> user_id, bookmark_id |-> bookmark_id,
                         source |-> source]]
           /\ IF why # ""
              THEN Finish(s, why)
              ELSE /\ pc' = [pc EXCEPT ![s] = "save"]
                   /\ UNCHANGED result
    /\ UNCHANGED <<store, now, obj, reader, accounts>>

\* lines 218-225: create_bookmark for the requester with the source's url and
\* tags and Visibility.PRIVATE, up to its look for an existing row
SaveCreate(s) ==
    /\ pc[s] = "save"
    /\ LET source == arg[s].source.row
       IN  /\ arg' = [arg EXCEPT ![s] =
                        [user_id |-> arg[s].user_id, url |-> source.url,
                         tags |-> source.tags, given |-> PRIVATE,
                         visibility |-> normalize_visibility(PRIVATE),
                         source |-> arg[s].source]]
           /\ IF existing_bookmark(bookmarks, arg[s].user_id, source.url)
              THEN Finish(s, "conflict")
              ELSE /\ pc' = [pc EXCEPT ![s] = "create_insert"]
                   /\ UNCHANGED result
    /\ UNCHANGED <<store, now, obj, reader, accounts>>

\* routes/bookmarks.py edit_form: GET /bookmarks/{id}/edit renders the form
\* of the requester's bookmark, 404 when it is not theirs
EditForm(s, bookmark_id, user_id) ==
    /\ pc[s] = "idle"
    /\ LET b == get_bookmark(bookmarks, bookmark_id, user_id)
       IN  IF b = None
           THEN /\ Finish(s, "not_found")
                /\ UNCHANGED obj
           ELSE /\ obj' = [obj EXCEPT ![s] = b]
                /\ Finish(s, "form")
    /\ arg' = [arg EXCEPT ![s] = [user_id |-> user_id]]
    /\ UNCHANGED <<store, now, reader, accounts>>

\* -------------------------------------------------------- update_bookmark
\* The unit of work writes the columns whose new value differs from the value
\* the session loaded; with none changed it emits no UPDATE at all.
changed_columns(loaded, new) ==
    {c \in {"url", "tags", "visibility"} : new[c] # loaded[c]}

\* the row the UPDATE leaves: the changed columns over the stored row
updated_row(s, new) ==
    [c \in DOMAIN obj[s].row |->
        IF c \in changed_columns(obj[s].row, new) THEN new[c] ELSE bookmarks[obj[s].id][c]]

\* autoflush at the first statement of the sync: the UPDATE goes through when
\* there is one, the row is still there and uq_user_url holds
flush_ok(s, new) ==
    \/ changed_columns(obj[s].row, new) = {}
    \/ /\ obj[s].id \in DOMAIN bookmarks
       /\ uq_user_url([bookmarks EXCEPT ![obj[s].id] = updated_row(s, new)])

UpdateWrite(s, url, tg, vis) ==
    /\ pc[s] = "update"
    /\ LET id   == obj[s].id
           new  == [url |-> url, tags |-> strip(tg),
                    visibility |-> normalize_visibility(vis)]
           cols == changed_columns(obj[s].row, new)
           row  == updated_row(s, new)
           rows == [bookmarks EXCEPT ![id] = row]
           r    == sync_normalized_tags(tags, bookmark_tags, id, strip(tg))
       IN  IF ~flush_ok(s, new)
           THEN \* StaleDataError (UPDATE matched no row) or IntegrityError:
                \* update_bookmark catches neither
                /\ Finish(s, "error")
                /\ Persist(rollback(store, store))
           ELSE /\ bookmarks' = IF cols # {} THEN rows ELSE bookmarks
                /\ fts' = IF cols # {} THEN bookmarks_au(fts, id, row) ELSE fts
                /\ tags' = r[1]
                /\ bookmark_tags' = r[2]
                /\ Finish(s, "success")
    /\ arg' = [arg EXCEPT ![s] =
                 [user_id |-> arg[s].user_id, url |-> url, tags |-> tg, given |-> vis,
                  visibility |-> normalize_visibility(vis)]]
    /\ Noticed
    /\ UNCHANGED <<now, obj>>
    /\ UNCHANGED accounts

\* a statement of _sync_normalized_tags raises after the UPDATE was flushed and
\* the bookmark's associations were deleted (the database is locked, the disk
\* fails): the error leaves update_bookmark and the route, the session closes
UpdateSyncFail(s, url, tg, vis) ==
    /\ pc[s] = "update"
    /\ LET id   == obj[s].id
           new  == [url |-> url, tags |-> strip(tg),
                    visibility |-> normalize_visibility(vis)]
           cols == changed_columns(obj[s].row, new)
           row  == updated_row(s, new)
           pending ==
               <<IF cols # {} THEN [bookmarks EXCEPT ![id] = row] ELSE bookmarks,
                 tags,
                 {p \in bookmark_tags : p[1] # id},
                 IF cols # {} THEN bookmarks_au(fts, id, row) ELSE fts>>
       IN  /\ flush_ok(s, new)
           /\ Persist(rollback(store, pending))
    /\ Finish(s, "error")
    /\ arg' = [arg EXCEPT ![s] =
                 [user_id |-> arg[s].user_id, url |-> url, tags |-> tg, given |-> vis,
                  visibility |-> normalize_visibility(vis)]]
    /\ Noticed
    /\ UNCHANGED <<now, obj>>
    /\ UNCHANGED accounts

\* -------------------------------------------------------- delete_bookmark
DeleteWrite(s) ==
    /\ pc[s] = "delete"
    /\ LET id == obj[s].id
       IN  IF id \in DOMAIN bookmarks
           THEN /\ bookmarks' = [i \in DOMAIN bookmarks \ {id} |-> bookmarks[i]]
                /\ fts' = bookmarks_ad(fts, id)
                /\ bookmark_tags' = on_delete_cascade(bookmark_tags, id)
           ELSE UNCHANGED <<bookmarks, fts, bookmark_tags>>
    /\ Finish(s, "deleted")
    /\ Noticed
    /\ UNCHANGED <<tags, now, arg, obj>>
    /\ UNCHANGED accounts

\* the response is sent and the session closed
Return(s) ==
    /\ pc[s] = "done"
    /\ pc' = [pc EXCEPT ![s] = "idle"]
    /\ arg' = [arg EXCEPT ![s] = None]
    /\ obj' = [obj EXCEPT ![s] = None]
    /\ result' = [result EXCEPT ![s] = "none"]
    /\ UNCHANGED <<store, now, reader>>
    /\ UNCHANGED accounts

\* ============================================================ registration
\* ---------------------------------------------------------- invite_service
INVITE_CODE_PREFIX == <<"T", "A", "S", "T", "I", "E", "-">>
INVITE_CODE_LENGTH == 7

\* str.upper on the letters the codes of the model are typed with
upper(s) ==
    [i \in DOMAIN s |->
        CASE s[i] = "t" -> "T" [] s[i] = "a" -> "A" [] s[i] = "s" -> "S"
          [] s[i] = "i" -> "I" [] s[i] = "e" -> "E" [] s[i] = "b" -> "B"
          [] OTHER -> s[i]]

startswith(s, prefix) ==
    Len(s) >= Len(prefix) /\ SubSeq(s, 1, Len(prefix)) = prefix

\* get_code_by_value: the row whose code is code.strip().upper(), or None
get_code_by_value(codes, code) ==
    LET c == upper(strip(code))
    IN  IF c \in DOMAIN codes THEN [code |-> c, used_by_user_id |-> codes[c]] ELSE None

is_code_valid(codes, code) ==
    LET invite == get_code_by_value(codes, code)
    IN  invite # None /\ invite.used_by_user_id = NoId

\* validate_and_use_code up to its SELECT (lines 44-58): the loaded invite,
\* or None where it returns Result.failure
validated_code(codes, code) ==
    LET c == upper(strip(code))
        invite == get_code_by_value(codes, c)
    IN  IF ~startswith(c, INVITE_CODE_PREFIX) THEN None
        ELSE IF Len(c) # Len(INVITE_CODE_PREFIX) + INVITE_CODE_LENGTH THEN None
        ELSE IF invite = None THEN None
        ELSE IF invite.used_by_user_id # NoId THEN None
        ELSE invite

\* cli.py create_invite_code: a generated code is added, unused
CreateInviteCode(code) ==
    /\ code \notin DOMAIN invite_codes
    /\ invite_codes' = [c \in DOMAIN invite_codes \cup {code} |->
                          IF c = code THEN NoId ELSE invite_codes[c]]
    /\ UNCHANGED <<store, now, sess, reader, users>>

\* ------------------------------------------------------------ routes/auth
REQUIRE_INVITE_CODE == TRUE

\* the unique indexes of users.username and users.email
uq_users(rows) ==
    \A i, j \in DOMAIN rows :
        i # j => rows[i].username # rows[j].username /\ rows[i].email # rows[j].email

\* POST /register, lines 54-72: the form is valid; with invite codes required
\* the code must be given and is_code_valid must accept it
Register(s, username, email, invite_code) ==
    /\ pc[s] = "idle"
    /\ arg' = [arg EXCEPT ![s] =
                 [username |-> username, email |-> email, invite_code |-> invite_code]]
    /\ IF REQUIRE_INVITE_CODE
          /\ (strip(invite_code) = <<>> \/ ~is_code_valid(invite_codes, invite_code))
       THEN Finish(s, "invalid_code")
       ELSE /\ pc' = [pc EXCEPT ![s] = "register_check"]
            /\ UNCHANGED result
    /\ UNCHANGED <<store, now, obj, reader, accounts>>

\* register_user lines 20-28: a user with this username or email exists
RegisterCheck(s) ==
    /\ pc[s] = "register_check"
    /\ IF \E i \in DOMAIN users : \/ users[i].username = arg[s].username
                                  \/ users[i].email = arg[s].email
       THEN Finish(s, "failure")
       ELSE /\ pc' = [pc EXCEPT ![s] = "register_insert"]
            /\ UNCHANGED result
    /\ UNCHANGED <<store, now, arg, obj, reader, accounts>>

\* register_user lines 30-38: the user row is added and committed; the
\* IntegrityError of a unique index is not caught
RegisterInsert(s) ==
    /\ pc[s] = "register_insert"
    /\ LET id  == next_rowid(users)
           new == [i \in DOMAIN users \cup {id} |->
                     IF i = id THEN [username |-> arg[s].username, email |-> arg[s].email]
                     ELSE users[i]]
       IN  IF ~uq_users(new)
           THEN /\ Finish(s, "error")
                /\ UNCHANGED <<users, obj>>
           ELSE /\ users' = new
                /\ obj' = [obj EXCEPT ![s] = [id |-> id]]
                /\ IF REQUIRE_INVITE_CODE
                   THEN /\ pc' = [pc EXCEPT ![s] = "register_code"]
                        /\ UNCHANGED result
                   ELSE Finish(s, "success")
    /\ UNCHANGED <<store, now, arg, reader, invite_codes>>

\* validate_and_use_code lines 44-58, called with the id of the new user
RegisterReadCode(s) ==
    /\ pc[s] = "register_code"
    /\ LET invite == validated_code(invite_codes, arg[s].invite_code)
       IN  IF invite = None
           THEN /\ Finish(s, "invite_failure")
                /\ UNCHANGED obj
           ELSE /\ obj' = [obj EXCEPT ![s] = [id |-> obj[s].id, invite |-> invite]]
                /\ pc' = [pc EXCEPT ![s] = "register_use"]
                /\ UNCHANGED result
    /\ UNCHANGED <<store, now, arg, reader, accounts>>

\* validate_and_use_code lines 60-64: UPDATE invite_codes SET used_by_user_id
\* WHERE id = the loaded invite, committed
RegisterUseCode(s) ==
    /\ pc[s] = "register_use"
    /\ invite_codes' = [invite_codes EXCEPT ![obj[s].invite.code] = obj[s].id]
    /\ Finish(s, "success")
    /\ UNCHANGED <<store, now, arg, obj, reader, users>>

\* =========================================================== read side
\* ------------------------------------------------------ bookmark_queries
ViewContext == {"public", "authenticated", "owner", "profile_public", "profile_auth"}

VisibilityFilter(context, owner_id) == [context |-> context, owner_id |-> owner_id]

\* VisibilityFilter.apply as the predicate its WHERE clause puts on a row
apply_public_only(vf, row) == row.visibility = PUBLIC

apply_no_visibility(vf, row) ==
    CASE vf.context \in {"public", "authenticated"} -> TRUE
      [] OTHER -> row.user_id = vf.owner_id

apply(vf, row) ==
    CASE vf.context = "public" -> row.visibility = PUBLIC
      [] vf.context = "authenticated" -> row.visibility \in {PUBLIC, AUTHENTICATED}
      [] vf.context = "owner" -> row.user_id = vf.owner_id
      [] vf.context = "profile_public" ->
            row.user_id = vf.owner_id /\ row.visibility = PUBLIC
      [] vf.context = "profile_auth" ->
            row.user_id = vf.owner_id /\ row.visibility \in {PUBLIC, AUTHENTICATED}

\* apply raises ValueError for an OWNER filter without owner_id
apply_raises(vf) == vf.context = "owner" /\ vf.owner_id = NoId

for_anonymous == VisibilityFilter("public", NoId)

for_authenticated == VisibilityFilter("authenticated", NoId)

for_owner(user_id) == VisibilityFilter("owner", user_id)

\* `if viewer_id`: None and 0 are falsy
for_profile(profile_user_id, viewer_id) ==
    IF viewer_id = profile_user_id
    THEN for_owner(profile_user_id)
    ELSE VisibilityFilter(
             IF viewer_id # NoId /\ viewer_id # 0 THEN "profile_auth" ELSE "profile_public",
             profile_user_id)

\* user is a User object or None
for_user(user) == IF user # NoId THEN for_authenticated ELSE for_anonymous

BS == "\\"

RECURSIVE escape_like_pattern(_)
escape_like_pattern(pattern) ==
    IF pattern = <<>> THEN <<>>
    ELSE (IF Head(pattern) \in {BS, "%", "_"} THEN <<BS, Head(pattern)>>
                                              ELSE <<Head(pattern)>>)
         \o escape_like_pattern(Tail(pattern))

\* SQL LIKE with ESCAPE '\': % is any run of characters, _ any one character
RECURSIVE like(_, _)
like(s, pat) ==
    IF pat = <<>> THEN s = <<>>
    ELSE IF Head(pat) = BS /\ Len(pat) >= 2
         THEN s # <<>> /\ Head(s) = pat[2] /\ like(Tail(s), SubSeq(pat, 3, Len(pat)))
    ELSE IF Head(pat) = "%"
         THEN like(s, Tail(pat)) \/ (s # <<>> /\ like(Tail(s), pat))
    ELSE IF Head(pat) = "_"
         THEN s # <<>> /\ like(Tail(s), Tail(pat))
    ELSE s # <<>> /\ Head(s) = Head(pat) /\ like(Tail(s), Tail(pat))

\* the WHERE clause of build_bookmarks_query: the ids it selects.  `if tag:`
\* skips the tag filter for None and for the empty string alike.
NoTag == <<>>

build_bookmarks_query(rows, visibility, tag) ==
    {i \in DOMAIN rows :
        /\ apply(visibility, rows[i])
        /\ tag # NoTag => like(rows[i].tags, <<"%">> \o escape_like_pattern(tag) \o <<"%">>)}

\* ORDER BY created_at DESC: rows of one created_at come in an order the
\* database is free to choose
Arrangements(S) ==
    {f \in [1..Cardinality(S) -> S] : \A i, j \in DOMAIN f : f[i] = f[j] => i = j}

order_by_created_at_desc(rows, ids) ==
    {f \in Arrangements(ids) :
        \A i, j \in DOMAIN f : i < j => rows[f[i]].created_at >= rows[f[j]].created_at}

\* list_bookmarks: every result the query can give
list_bookmarks(rows, visibility, tag) ==
    order_by_created_at_desc(rows, build_bookmarks_query(rows, visibility, tag))

\* Python's order of str, on the names the model tags with
RECURSIVE str_lt(_, _)
str_lt(a, b) ==
    LET ord(c) == CASE c = "a" -> 97 [] c = "b" -> 98 [] OTHER -> 0
    IN  IF a = <<>> THEN b # <<>>
        ELSE IF b = <<>> THEN FALSE
        ELSE IF Head(a) # Head(b) THEN ord(Head(a)) < ord(Head(b))
        ELSE str_lt(Tail(a), Tail(b))

\* get_all_tags: every token of the tags column of every selected row adds
\* one to its name; the pairs sorted by (-count, name)
get_all_tags(rows, visibility) ==
    LET sel == {i \in DOMAIN rows : apply(visibility, rows[i])}
        occ == {<<i, k>> \in sel \X (1..8) : k \in DOMAIN split(rows[i].tags)}
        all_tags == [t \in {split(rows[p[1]].tags)[p[2]] : p \in occ} |->
                       Cardinality({p \in occ : split(rows[p[1]].tags)[p[2]] = t})]
        items == {<<t, all_tags[t]>> : t \in DOMAIN all_tags}
    IN  CHOOSE f \in Arrangements(items) :
            \A i, j \in DOMAIN f :
                i < j => \/ f[i][2] > f[j][2]
                         \/ (f[i][2] = f[j][2] /\ str_lt(f[i][1], f[j][1]))

\* ----------------------------------------------------------------- search
QUOTE == "\""

RECURSIVE remove_quotes(_)
remove_quotes(q) ==
    IF q = <<>> THEN <<>>
    ELSE (IF Head(q) = QUOTE THEN <<>> ELSE <<Head(q)>>) \o remove_quotes(Tail(q))

RECURSIVE join(_)
join(words) ==
    IF words = <<>> THEN <<>>
    ELSE IF Len(words) = 1 THEN Head(words)
    ELSE Head(words) \o <<SP>> \o join(Tail(words))

\* escape_fts5_query: every word of the query, quotes removed, wrapped in quotes
escape_fts5_query(query) ==
    LET words == split(remove_quotes(query))
    IN  join([i \in DOMAIN words |-> <<QUOTE>> \o words[i] \o <<QUOTE>>])

\* MATCH on a query of quoted phrases: a row matches when its indexed text
\* holds every phrase as a token
fts5_phrases(escaped) ==
    LET ws == split(escaped)
    IN  {remove_quotes(ws[i]) : i \in DOMAIN ws}

fts5_match(idx, escaped) ==
    {i \in DOMAIN idx : \A w \in fts5_phrases(escaped) : w \in Range(split(idx[i]))}

\* fts5_search_ids: the matching rowids, ORDER BY rank (any order of the matches)
fts5_search_ids(idx, query) ==
    LET escaped_query == escape_fts5_query(query)
    IN  IF escaped_query = <<>> THEN {<<>>}
        ELSE Arrangements(fts5_match(idx, escaped_query))

\* a search that returns every ranked id
search_rows_unfiltered(rows, matching_ids, visibility) == matching_ids

\* lines 74-82 of search_bookmarks: fetch the rows of the ranked ids through the
\* visibility filter, and return them in the order of the ranking
search_rows(rows, matching_ids, visibility) ==
    LET bookmark_map == {i \in DOMAIN rows : i \in Range(matching_ids) /\ apply(visibility, rows[i])}
    IN  SelectSeq(matching_ids, LAMBDA id : id \in bookmark_map)

\* search_bookmarks on one state of the database: every result it can give
search_bookmarks(rows, idx, query, visibility) ==
    {search_rows(rows, matching_ids, visibility) :
        matching_ids \in fts5_search_ids(idx, query)}

\* ------------------------------------------------------------- pagination
DEFAULT_PAGE_SIZE == 50
MAX_PAGE_SIZE == 100

Min(a, b) == IF a < b THEN a ELSE b
Max(a, b) == IF a > b THEN a ELSE b

\* JSON values and the Python values json.loads / json.dumps pair them with
\* (None, list, int, str, dict), and the strings a cursor is sent as: text that
\* is no base64, base64 of bytes that are no JSON, or base64 of a JSON document
JNull == [t |-> "null"]
JList == [t |-> "list"]
JNum(n) == [t |-> "num", n |-> n]
JStr(x) == [t |-> "str", s |-> x]
JObj(f) == [t |-> "obj", f |-> f]

NoCursor == [kind |-> "none"]
NotBase64 == [kind |-> "not_base64"]
NotJson == [kind |-> "not_json"]
B64Json(j) == [kind |-> "json", json |-> j]

\* datetime.isoformat() / datetime.fromisoformat(): the text of the instant t
isoformat(t) == <<"iso", t>>
IsIso(x) == Len(x) = 2 /\ x[1] = "iso"

Cursor(created_at, id) == [created_at |-> created_at, id |-> id]

\* Cursor.encode
encode_without_id(c) == B64Json(JObj([ts |-> JStr(isoformat(c.created_at))]))

encode(c) == B64Json(JObj([ts |-> JStr(isoformat(c.created_at)), id |-> c.id]))

\* Cursor.decode, statement by statement: what it raises, or what it returns
Raised(e) == [raised |-> e, value |-> None]
Returned(v) == [raised |-> "none", value |-> v]

caught == {"ValueError", "KeyError", "JSONDecodeError"}

decode_body(encoded) ==
    IF encoded.kind = "not_base64" THEN Raised("ValueError")         \* binascii.Error
    ELSE IF encoded.kind = "not_json" THEN Raised("JSONDecodeError")
    ELSE LET data == encoded.json
         IN  IF data.t # "obj" THEN Raised("TypeError")              \* data["ts"]
             ELSE IF "ts" \notin DOMAIN data.f THEN Raised("KeyError")
             ELSE IF data.f["ts"].t # "str" THEN Raised("TypeError") \* fromisoformat
             ELSE IF ~IsIso(data.f["ts"].s) THEN Raised("ValueError")
             ELSE IF "id" \notin DOMAIN data.f THEN Raised("KeyError")
             ELSE Returned(Cursor(data.f["ts"].s[2], data.f["id"]))

decode(encoded) ==
    LET r == decode_body(encoded)
    IN  IF r.raised \in caught THEN Returned(None) ELSE r

get_bookmark_cursor(rows, id) == Cursor(rows[id].created_at, JNum(id))

\* Page.from_results with cursor_getter = get_bookmark_cursor
from_results_all(rows, items, limit) ==
    [items |-> items, next_cursor |-> NoCursor, has_more |-> FALSE]

from_results(rows, items, limit) ==
    LET has_more   == Len(items) > limit
        page_items == IF has_more THEN SubSeq(items, 1, limit) ELSE items
        next_cursor ==
            IF page_items # <<>> /\ has_more
            THEN LET last_item == page_items[Len(page_items)]
                 IN  encode(get_bookmark_cursor(rows, last_item))
            ELSE NoCursor
    IN  [items |-> page_items, next_cursor |-> next_cursor, has_more |-> has_more]

\* Bookmark.id < cursor.id as SQLite compares: an integer is below any text,
\* and a comparison with NULL is not true
id_before(id, cid) ==
    CASE cid.t = "num" -> id < cid.n
      [] cid.t = "str" -> TRUE
      [] OTHER -> FALSE

\* the seek predicate of list_bookmarks_paginated
before_cursor(row, id, c) ==
    \/ row.created_at < c.created_at
    \/ (row.created_at = c.created_at /\ id_before(id, c.id))

\* a service that takes the limit as it comes
clamp_off(limit) == limit

clamp(limit) == Min(Max(1, limit), MAX_PAGE_SIZE)

\* list_bookmarks_paginated: every outcome the call can have
list_bookmarks_paginated(rows, visibility, tag, cursor, limit) ==
    LET lim == clamp(limit)
        d   == IF cursor # NoCursor THEN decode(cursor) ELSE Returned(None)
        ids == build_bookmarks_query(rows, visibility, tag)
        sel == IF d.value # None
               THEN {i \in ids : before_cursor(rows[i], i, d.value)}
               ELSE ids
    IN  IF d.raised # "none"
        THEN {[raised |-> d.raised, page |-> None]}
        ELSE {[raised |-> "none",
               page |-> from_results(rows, SubSeq(o, 1, Min(lim + 1, Len(o))), lim)] :
                 o \in order_by_created_at_desc(rows, sel)}

\* ---------------------------------------------------------- core/result.py
NOT_FOUND == [kind |-> "not_found"]
VALIDATION == [kind |-> "validation"]
CONFLICT == [kind |-> "conflict"]

\* Result(value, errors, error_kind)
Result(value, errors, error_kind) ==
    [value |-> value, errors |-> errors, error_kind |-> error_kind]

\* Result.success(value), Result.failure(*errors), Result.not_found(message),
\* Result.conflict(message)
success(value) == Result(value, <<>>, None)
failure(errors) == Result(None, errors, VALIDATION)
not_found(message) == Result(None, <<message>>, NOT_FOUND)
conflict(message) == Result(None, <<message>>, CONFLICT)

\* Result.ok
ok(r) == r.value # None /\ r.errors = <<>>

\* ---------------------------------------------------------------- readers
\* GET /bookmarks (routes/partials.py): one page, the cursor as the client sent it
ListPage(visibility, tag, cursor, limit) ==
    /\ ~call.made
    /\ \E out \in list_bookmarks_paginated(bookmarks, visibility, tag, cursor, limit) :
          call' = [made |-> TRUE, visibility |-> visibility, tag |-> tag,
                   cursor |-> cursor, limit |-> limit,
                   rows |-> bookmarks, effective |-> clamp(limit),
                   decoded |-> IF cursor # NoCursor THEN decode(cursor)
                                                    ELSE Returned(None),
                   first |-> list_bookmarks_paginated(bookmarks, visibility, tag,
                                                      NoCursor, limit),
                   out |-> out]
    /\ UNCHANGED <<store, now, sess, trav>>
    /\ UNCHANGED accounts

\* the response has been sent; the client may ask again
ListDone ==
    /\ call.made
    /\ call' = [made |-> FALSE]
    /\ UNCHANGED <<store, now, sess, trav>>
    /\ UNCHANGED accounts

\* Cursor.decode(c.encode()) for a cursor c
RoundTrip(c) ==
    /\ ~call.made
    /\ call' = [made |-> TRUE, op |-> "round_trip", cursor |-> c,
                encoded |-> encode(c), decoded |-> decode(encode(c))]
    /\ UNCHANGED <<store, now, sess, trav>>
    /\ UNCHANGED accounts

\* Page.from_results(items, limit, get_bookmark_cursor) on rows of the table
FromResults(items, limit) ==
    /\ ~call.made
    /\ call' = [made |-> TRUE, op |-> "from_results", rows |-> bookmarks,
                items |-> items, limit |-> limit,
                page |-> from_results(bookmarks, items, limit)]
    /\ UNCHANGED <<store, now, sess, trav>>
    /\ UNCHANGED accounts

\* one of the four constructors of Result is called
MakeResult(ctor, r) ==
    /\ ~call.made
    /\ call' = [made |-> TRUE, op |-> "result", ctor |-> ctor, r |-> r, ok |-> ok(r)]
    /\ UNCHANGED <<store, now, sess, trav>>
    /\ UNCHANGED accounts

\* show_user_profile (routes/views.py) builds the filter of a profile page;
\* a viewer_id of NoId is the anonymous visitor (None)
ForProfile(profile_user_id, viewer_id) ==
    /\ ~call.made
    /\ call' = [made |-> TRUE, op |-> "for_profile",
                profile_user_id |-> profile_user_id, viewer_id |-> viewer_id,
                out |-> for_profile(profile_user_id, viewer_id)]
    /\ UNCHANGED <<store, now, sess, trav>>
    /\ UNCHANGED accounts

\* the tag cloud of a listing page: get_all_tags with the viewer's filter
GetAllTags(visibility) ==
    /\ ~call.made
    /\ call' = [made |-> TRUE, op |-> "get_all_tags", visibility |-> visibility,
                rows |-> bookmarks, out |-> get_all_tags(bookmarks, visibility)]
    /\ UNCHANGED <<store, now, sess, trav, accounts>>

\* search_bookmarks, first statement: the ranked ids of the full-text search
SearchRank(query, visibility) ==
    /\ ~call.made
    /\ \E matching_ids \in fts5_search_ids(fts, query) :
          call' = [made |-> TRUE, op |-> "search", step |-> "ranked", query |-> query,
                   visibility |-> visibility, matching_ids |-> matching_ids]
    /\ UNCHANGED <<store, now, sess, trav>>
    /\ UNCHANGED accounts

\* search_bookmarks, second statement: the rows of those ids, read from the
\* table as it is by then
SearchFetch ==
    /\ call.made /\ call.op = "search" /\ call.step = "ranked"
    /\ call' = [call EXCEPT !.step = "fetched"] @@
                [rows |-> bookmarks,
                 out |-> search_rows(bookmarks, call.matching_ids, call.visibility)]
    /\ UNCHANGED <<store, now, sess, trav>>
    /\ UNCHANGED accounts

\* a client asks for the first page of a listing ...
TravStart(visibility, tag, limit) ==
    /\ trav.pc \in {"idle", "done"}
    /\ \E out \in list_bookmarks_paginated(bookmarks, visibility, tag, NoCursor, limit) :
          trav' = [pc |-> IF out.page.has_more THEN "paging" ELSE "done",
                   visibility |-> visibility, tag |-> tag, limit |-> limit,
                   seen |-> out.page.items, cursor |-> out.page.next_cursor,
                   dirty |-> FALSE,
                   stable |-> build_bookmarks_query(bookmarks, visibility, tag)]
    /\ UNCHANGED <<store, now, sess, call>>
    /\ UNCHANGED accounts

\* ... and follows next_cursor while has_more
TravNext ==
    /\ trav.pc = "paging"
    /\ \E out \in list_bookmarks_paginated(bookmarks, trav.visibility, trav.tag,
                                           trav.cursor, trav.limit) :
          trav' = [trav EXCEPT
                     !.pc = IF out.page.has_more THEN "paging" ELSE "done",
                     !.seen = @ \o out.page.items,
                     !.cursor = out.page.next_cursor]
    /\ UNCHANGED <<store, now, sess, call>>
    /\ UNCHANGED accounts

\* the requests of the sessions S with users U, urls L, tag strings T, visibilities V
Creates(S, U, L, T, V) ==
    \/ \E s \in S, u \in U, l \in L, t \in T, v \in V : CreateCheck(s, u, l, t, v)
    \/ \E s \in S : CreateInsert(s)
    \/ \E s \in S : CreateSync(s)
    \/ \E s \in S : CreateSyncFail(s)

Updates(S, U, L, T, V) ==
    \/ \E s \in S, id \in 1..MaxId, u \in U : Get(s, "update", id, u)
    \/ \E s \in S, l \in L, t \in T, v \in V : UpdateWrite(s, l, t, v)
    \/ \E s \in S, l \in L, t \in T, v \in V : UpdateSyncFail(s, l, t, v)

Deletes(S, U) ==
    \/ \E s \in S, id \in 1..MaxId, u \in U : Get(s, "delete", id, u)
    \/ \E s \in S : DeleteWrite(s)

Requests(S, U, L, T, V) ==
    \/ Creates(S, U, L, T, V)
    \/ Updates(S, U, L, T, V)
    \/ Deletes(S, U)
    \/ \E s \in S : Return(s)

\* two concurrent sessions writing bookmarks and their tags
TagPair == { <<>>, <<SP, "a", SP, SP, "a">> }

Next == Requests(Sessions, {1}, Urls, TagPair, {PUBLIC})

Spec == Init /\ [][Next]_vars

\* one session at a time: requests in sequence
NextSeq == Requests({"s1"}, Users, Urls, {<<>>, <<"a">>}, {PUBLIC, PRIVATE})

SpecSeq == Init /\ [][NextSeq]_vars

\* one session at a time, every user and visibility, one tag string
NextVis == Requests({"s1"}, Users, Urls, {<<"a">>}, VisInputs)

SpecVis == Init /\ [][NextVis]_vars

\* one session of one user, every visibility a form can post, no tags
NextNorm == Requests({"s1"}, {1}, Urls, {<<>>}, VisInputs)

SpecNorm == Init /\ [][NextNorm]_vars

\* two concurrent sessions of two users, one tag string
NextUniq == Requests(Sessions, Users, Urls, {<<"a">>}, {PUBLIC})

SpecUniq == Init /\ [][NextUniq]_vars

\* two concurrent create_bookmark calls and nothing else, on a working database
NextRace ==
    \/ \E s \in Sessions, u \in Users, l \in Urls, t \in TagPair, v \in VisInputs :
          CreateCheck(s, u, l, t, v)
    \/ \E s \in Sessions : CreateInsert(s)
    \/ \E s \in Sessions : CreateSync(s)

SpecRace == Init /\ [][NextRace]_vars

\* one session that creates and deletes, the clock, and a client that lists pages
PageFilters == {for_anonymous, for_owner(1)}
PageTags == {NoTag, <<"a">>}
PageLimits == {1, 2}

NextPage ==
    \/ Creates({"s1"}, {1}, Urls, {<<"a">>}, {PUBLIC, PRIVATE})
    \/ Deletes({"s1"}, {1})
    \/ Return("s1")
    \/ Tick
    \/ \E f \in PageFilters, t \in PageTags, l \in PageLimits : TravStart(f, t, l)
    \/ TravNext

SpecPage == Init /\ [][NextPage]_vars

\* one session that creates, and single page requests with any cursor
CursorInputs ==
    {NoCursor, NotBase64, NotJson,
     B64Json(JNull), B64Json(JList),
     B64Json(JObj(<<>>)),
     B64Json(JObj([id |-> JNum(1)])),
     B64Json(JObj([ts |-> JStr(isoformat(0))])),
     B64Json(JObj([ts |-> JNum(0), id |-> JNum(1)])),
     B64Json(JObj([ts |-> JStr(<<"junk">>), id |-> JNum(1)])),
     B64Json(JObj([ts |-> JStr(isoformat(0)), id |-> JStr(<<"x">>)]))}
    \cup {encode(Cursor(t, JNum(i))) : t \in 0..MaxClock, i \in 1..MaxId}

NextCursor ==
    \/ Creates({"s1"}, {1}, Urls, {<<"a">>}, {PUBLIC, PRIVATE})
    \/ Return("s1")
    \/ \E f \in PageFilters, c \in CursorInputs, l \in PageLimits :
          ListPage(f, NoTag, c, l)
    \/ ListDone

SpecCursor == Init /\ [][NextCursor]_vars

ValidCursors == {Cursor(t, JNum(i)) : t \in 0..MaxClock, i \in 1..MaxId}

\* one session that creates, and single page requests with any limit
LimitInputs == {-1, 0, 1, 2, 100, 101}

NextLimit ==
    \/ Creates({"s1"}, {1}, Urls, {<<"a">>}, {PUBLIC, PRIVATE})
    \/ Return("s1")
    \/ \E f \in PageFilters, c \in {NoCursor} \cup {encode(k) : k \in ValidCursors},
          l \in LimitInputs :
          ListPage(f, NoTag, c, l)
    \/ ListDone

SpecLimit == Init /\ [][NextLimit]_vars

\* one session that creates and deletes, and a client that searches
SearchQueries == {<<"a">>, <<QUOTE, "a", QUOTE, SP, "a">>, <<SP>>}

NextSearch ==
    \/ Creates({"s1"}, {1}, Urls, {<<"a">>}, {PUBLIC, PRIVATE})
    \/ Deletes({"s1"}, {1})
    \/ Return("s1")
    \/ \E q \in SearchQueries, f \in PageFilters : SearchRank(q, f)
    \/ SearchFetch
    \/ ListDone

SpecSearch == Init /\ [][NextSearch]_vars

\* one session that creates, the clock, and calls of the pure functions
ItemLists(rows) ==
    UNION {[1..n -> DOMAIN rows] : n \in 0..(MaxId + 1)}

Values == {[id |-> 1], [id |-> 2]}
ProfileIds == {0, 1, 2}
Messages == {"Not found", "invalid invite code"}
ErrorLists == {<<>>} \cup {<<m>> : m \in Messages} \cup {<<m, n>> : m, n \in Messages}

NextPure ==
    \/ Creates({"s1"}, {1}, Urls, {<<"a">>}, {PUBLIC})
    \/ Return("s1")
    \/ Tick
    \/ \E c \in ValidCursors \cup {get_bookmark_cursor(bookmarks, i) : i \in DOMAIN bookmarks} :
          RoundTrip(c)
    \/ \E items \in ItemLists(bookmarks), limit \in 1..(MaxId + 1) : FromResults(items, limit)
    \/ \E v \in Values : MakeResult("success", success(v))
    \/ \E e \in ErrorLists : MakeResult("failure", failure(e))
    \/ \E m \in Messages : MakeResult("not_found", not_found(m))
    \/ \E m \in Messages : MakeResult("conflict", conflict(m))
    \/ \E p \in ProfileIds, v \in ProfileIds \cup {NoId} : ForProfile(p, v)
    \/ ListDone

SpecPure == Init /\ [][NextPure]_vars

\* two sessions and two users on one url, the edit form included
NextOwner ==
    \/ Requests(Sessions, Users, {"u1"}, {<<>>, <<"a">>}, {PUBLIC})
    \/ \E s \in Sessions, i \in 1..MaxId, u \in Users : EditForm(s, i, u)

SpecOwner == Init /\ [][NextOwner]_vars

\* two sessions and two users who create bookmarks and save each other's
NextSave ==
    \/ \E s \in Sessions, u \in Users, l \in Urls, v \in {PUBLIC, PRIVATE} :
          CreateCheck(s, u, l, <<"a">>, v)
    \/ \E s \in Sessions : CreateInsert(s)
    \/ \E s \in Sessions : CreateSync(s)
    \/ \E s \in Sessions, i \in 1..MaxId, u \in Users : Save(s, i, u)
    \/ \E s \in Sessions : SaveCreate(s)
    \/ \E s \in Sessions : Return(s)

SpecSave == Init /\ [][NextSave]_vars

\* one session creating bookmarks with two tag strings, and the tag cloud
\* for an anonymous visitor and for the owner
NextTags ==
    \/ Creates({"s1"}, {1}, Urls, {<<"a", SP, "a">>, <<"b", SP, "a">>}, {PUBLIC, PRIVATE})
    \/ Return("s1")
    \/ \E f \in PageFilters : GetAllTags(f)
    \/ ListDone

SpecTags == Init /\ [][NextTags]_vars

\* two registrations at a time, with codes as generated and as typed
GeneratedCodes == {INVITE_CODE_PREFIX \o <<"A", "A", "A", "A", "A", "A", "A">>}
TypedCodes ==
    GeneratedCodes \cup
    {<<SP, "t", "a", "s", "t", "i", "e", "-", "a", "a", "a", "a", "a", "a", "a">>,
     INVITE_CODE_PREFIX \o <<"B", "B", "B", "B", "B", "B", "B">>,
     <<SP>>}

NextInvite ==
    \/ \E code \in GeneratedCodes : CreateInviteCode(code)
    \/ \E s \in Sessions, username \in {"ann", "bob"}, email \in {"ann@x", "bob@x"},
          code \in TypedCodes : Register(s, username, email, code)
    \/ \E s \in Sessions : RegisterCheck(s)
    \/ \E s \in Sessions : RegisterInsert(s)
    \/ \E s \in Sessions : RegisterReadCode(s)
    \/ \E s \in Sessions : RegisterUseCode(s)
    \/ \E s \in Sessions : Return(s)

SpecInvite == Init /\ [][NextInvite]_vars

\* ============================================================ properties
\* the tag names BookmarkTag rows give bookmark id, and the tokens of a tags string
AssocNames(tg, bt, id) == {tg[p[2]] : p \in {q \in bt : q[1] = id}}
Tokens(tags_str) == Range(split(tags_str))

IsDupFree(seq) == \A i, j \in DOMAIN seq : seq[i] = seq[j] => i = j

\* C1: a traversal (first page without cursor, then next_cursor until has_more
\* is false) over a store nobody wrote to meanwhile has returned every bookmark
\* of list_bookmarks(visibility, tag) exactly once.
C1_TraversalComplete ==
    (trav.pc = "done" /\ ~trav.dirty) =>
        /\ IsDupFree(trav.seen)
        /\ Range(trav.seen) = build_bookmarks_query(bookmarks, trav.visibility, trav.tag)

\* C2: when create_bookmark or update_bookmark returns success, the tag names
\* associated with the bookmark are exactly the tokens of its stored tags string.
C2_SuccessLeavesIndexInSync ==
    [][\A s \in Sessions :
          (pc[s] # "done" /\ pc'[s] = "done" /\ result'[s] = "success"
             /\ obj'[s].id \in DOMAIN bookmarks')
          => AssocNames(tags', bookmark_tags', obj'[s].id)
               = Tokens(bookmarks'[obj'[s].id].tags)]_vars

\* C3: in every committed state each bookmark row has exactly the tokens of its
\* tags string as associations (row and index are committed together).
C3_RowAndIndexCommittedTogether ==
    \A i \in DOMAIN bookmarks :
        AssocNames(tags, bookmark_tags, i) = Tokens(bookmarks[i].tags)

\* C4: two concurrent create_bookmark calls for one (owner, url): one returns
\* success, the other CONFLICT, and one row of that pair exists.
SamePair(s, t) == arg[s].user_id = arg[t].user_id /\ arg[s].url = arg[t].url

RowsOf(user_id, url) ==
    {i \in DOMAIN bookmarks : bookmarks[i].user_id = user_id /\ bookmarks[i].url = url}

C4_OneWinnerOneConflict ==
    \A s, t \in Sessions :
        (s # t /\ pc[s] = "done" /\ pc[t] = "done" /\ SamePair(s, t)) =>
            /\ {result[s], result[t]} = {"success", "conflict"}
            /\ Cardinality(RowsOf(arg[s].user_id, arg[s].url)) = 1

C4_Witness ==
    \E s, t \in Sessions :
        /\ s # t /\ pc[s] = "done" /\ pc[t] = "done" /\ SamePair(s, t)
        /\ result[s] = "success" /\ result[t] = "conflict"
        /\ arg[s].tags # arg[t].tags

\* C5: create_bookmark for an (owner, url) that has a row returns CONFLICT and
\* leaves bookmark, Tag and BookmarkTag rows as they were, whatever else it is
\* given; for a pair without a row, called in sequence, it inserts the row and
\* returns success.
StartsCreate(s) == pc[s] = "idle" /\ pc'[s] # "idle" /\ "url" \in DOMAIN arg'[s]

C5_SecondCreateConflicts ==
    [][\A s \in Sessions :
          /\ (StartsCreate(s) /\ RowsOf(arg'[s].user_id, arg'[s].url) # {}) =>
                /\ pc'[s] = "done" /\ result'[s] = "conflict"
                /\ UNCHANGED <<bookmarks, tags, bookmark_tags>>
          /\ (StartsCreate(s) /\ RowsOf(arg'[s].user_id, arg'[s].url) = {}) =>
                pc'[s] = "create_insert"
          /\ (pc[s] = "create_insert" /\ pc'[s] # "create_insert") =>
                /\ pc'[s] = "create_sync"
                /\ obj'[s].id \in DOMAIN bookmarks' \ DOMAIN bookmarks
          /\ (pc[s] = "create_sync" /\ pc'[s] = "done" /\ result'[s] # "error") =>
                result'[s] = "success"]_vars

C5_Witness ==
    \E s \in Sessions :
        /\ pc[s] = "done" /\ result[s] = "conflict"
        /\ \E i \in RowsOf(arg[s].user_id, arg[s].url) :
              /\ bookmarks[i].tags # strip(arg[s].tags)
              /\ bookmarks[i].visibility # arg[s].visibility
              /\ AssocNames(tags, bookmark_tags, i) = Tokens(bookmarks[i].tags)

\* C6: no two bookmark rows have the same (user_id, url).
C6_OwnerUrlUnique ==
    \A i, j \in DOMAIN bookmarks :
        i # j => <<bookmarks[i].user_id, bookmarks[i].url>>
                   # <<bookmarks[j].user_id, bookmarks[j].url>>

\* an update that would have moved a bookmark onto the url of another bookmark
\* of its owner was refused, next to a state with two rows
C6_Witness ==
    \E s \in Sessions :
        /\ pc[s] = "done" /\ result[s] = "error" /\ "url" \in DOMAIN arg[s]
        /\ obj[s].id \in DOMAIN bookmarks
        /\ \E j \in DOMAIN bookmarks \ {obj[s].id} :
              /\ bookmarks[j].user_id = bookmarks[obj[s].id].user_id
              /\ bookmarks[j].url = arg[s].url

\* C7: a private bookmark is in no result of list_bookmarks,
\* list_bookmarks_paginated or search_bookmarks under a filter built for a viewer
\* other than its owner, and an authenticated-only bookmark in none under a
\* filter built for an anonymous viewer.
Viewers == Users \cup {NoId}
TagFilters == {NoTag, <<"a">>, <<"_">>}
Queries == {<<"a">>, <<QUOTE, "a", QUOTE, SP, "a">>, <<SP>>}
Limits == {1, 2}

FiltersFor(viewer) ==
    {for_anonymous, for_authenticated, for_user(viewer)}
        \cup {for_profile(p, viewer) : p \in Users}

AnonymousFilters == {for_anonymous, for_user(NoId)} \cup {for_profile(p, NoId) : p \in Users}

CursorsOf(rows) ==
    {NoCursor} \cup {encode(get_bookmark_cursor(rows, i)) : i \in DOMAIN rows}

\* the ids some result of the three read operations holds under filter f
IdsReturned(f) ==
    UNION {Range(r) : r \in UNION {list_bookmarks(bookmarks, f, t) : t \in TagFilters}}
    \cup UNION {Range(o.page.items) :
                  o \in UNION {list_bookmarks_paginated(bookmarks, f, t, c, l) :
                                 t \in TagFilters, c \in CursorsOf(bookmarks), l \in Limits}}
    \cup UNION {Range(r) : r \in UNION {search_bookmarks(bookmarks, fts, q, f) : q \in Queries}}

AllFilters == UNION {FiltersFor(v) : v \in Viewers} \cup AnonymousFilters

C7_PrivateNeverLeaks ==
    \A f \in AllFilters :
        \A i \in IdsReturned(f) :
            /\ bookmarks[i].visibility = PRIVATE =>
                  \A v \in Viewers \ {bookmarks[i].user_id} : f \notin FiltersFor(v)
            /\ bookmarks[i].visibility = AUTHENTICATED => f \notin AnonymousFilters

\* user 1 holds a private and a public bookmark; user 2, looking at the profile
\* of user 1, is shown the public one
C7_Witness ==
    \E i, j \in DOMAIN bookmarks :
        /\ bookmarks[i].user_id = 1 /\ bookmarks[i].visibility = PRIVATE
        /\ bookmarks[j].user_id = 1 /\ bookmarks[j].visibility = PUBLIC
        /\ IdsReturned(for_profile(1, 2)) = {j}
        /\ i \in IdsReturned(for_profile(1, 1))

\* C8: the rows each filter selects: Public the public ones; Authenticated the
\* public and authenticated ones; Owner(u) those of u; ProfilePublic(u) the
\* public ones of u; ProfileAuth(u) the public and authenticated ones of u.
Selected(vf) == {i \in DOMAIN bookmarks : apply(vf, bookmarks[i])}
Vis(i) == bookmarks[i].visibility
Own(i) == bookmarks[i].user_id

C8_ApplySelectsExactly ==
    /\ Selected(VisibilityFilter("public", NoId)) = {i \in DOMAIN bookmarks : Vis(i) = PUBLIC}
    /\ Selected(VisibilityFilter("authenticated", NoId))
         = {i \in DOMAIN bookmarks : Vis(i) = PUBLIC \/ Vis(i) = AUTHENTICATED}
    /\ \A u \in Users :
          /\ Selected(VisibilityFilter("owner", u)) = {i \in DOMAIN bookmarks : Own(i) = u}
          /\ Selected(VisibilityFilter("profile_public", u))
               = {i \in DOMAIN bookmarks : Own(i) = u /\ Vis(i) = PUBLIC}
          /\ Selected(VisibilityFilter("profile_auth", u))
               = {i \in DOMAIN bookmarks :
                    Own(i) = u /\ (Vis(i) = PUBLIC \/ Vis(i) = AUTHENTICATED)}

\* a private bookmark of user 1 next to an authenticated-only one of user 2
C8_Witness ==
    \E i, j \in DOMAIN bookmarks :
        /\ Own(i) = 1 /\ Vis(i) = PRIVATE
        /\ Own(j) = 2 /\ Vis(j) = AUTHENTICATED
        /\ Selected(VisibilityFilter("owner", 1)) = {i}
        /\ Selected(VisibilityFilter("profile_auth", 2)) = {j}

\* C9: Cursor.decode raises for no input string.
C9_DecodeNeverRaises ==
    (call.made /\ call.cursor # NoCursor) => call.decoded.raised = "none"

\* C10: list_bookmarks_paginated with a malformed cursor raises nothing and
\* returns a page the call without cursor returns.
Malformed(c) ==
    \/ c.kind \in {"not_base64", "not_json"}
    \/ /\ c.kind = "json"
       /\ \/ c.json.t # "obj"
          \/ /\ c.json.t = "obj"
             /\ \/ {"ts", "id"} \ DOMAIN c.json.f # {}
                \/ c.json.f["ts"].t # "str"
                \/ ~IsIso(c.json.f["ts"].s)

C10_MalformedCursorIsFirstPage ==
    (call.made /\ Malformed(call.cursor)) =>
        /\ call.out.raised = "none"
        /\ call.out \in call.first

C12_PageAssembly ==
    (call.made /\ call.op = "from_results") =>
        LET L == call.limit
            given == call.items
            page == call.page
        IN  /\ Len(given) > L =>
                  /\ page.has_more
                  /\ Len(page.items) = L
                  /\ \A k \in 1..L : page.items[k] = given[k]
                  /\ page.next_cursor =
                        B64Json(JObj([ts |-> JStr(isoformat(call.rows[given[L]].created_at)),
                                      id |-> JNum(given[L])]))
            /\ Len(given) <= L =>
                  /\ ~page.has_more
                  /\ page.items = given
                  /\ page.next_cursor = NoCursor
            /\ (page.next_cursor # NoCursor) <=> page.has_more

\* three rows given with limit 2: a page of two with a cursor
C12_Witness ==
    /\ call.made /\ call.op = "from_results"
    /\ Len(call.items) = 3 /\ call.limit = 2
    /\ call.page.has_more /\ Len(call.page.items) = 2
    /\ call.page.next_cursor # NoCursor

\* C13: the limit a page request runs with is min(max(1, limit), 100); the page
\* holds no more items than that, and at least one when a bookmark matches.
Effective(limit) == IF limit < 1 THEN 1 ELSE IF limit > 100 THEN 100 ELSE limit

C13_LimitClamped ==
    (call.made /\ call.out.raised = "none") =>
        /\ call.effective = Effective(call.limit)
        /\ Len(call.out.page.items) <= Effective(call.limit)
        /\ (call.cursor = NoCursor
              /\ \E i \in DOMAIN call.rows : apply(call.visibility, call.rows[i]))
             => Len(call.out.page.items) >= 1

\* limit 0 with two public bookmarks stored: a page of one, and more to come
C13_Witness ==
    /\ call.made /\ call.limit = 0 /\ call.cursor = NoCursor
    /\ Cardinality({i \in DOMAIN call.rows : call.rows[i].visibility = PUBLIC}) = 2
    /\ Len(call.out.page.items) = 1
    /\ call.out.page.has_more

\* C14: when delete_bookmark has committed, the bookmark row is gone and no
\* BookmarkTag row with its bookmark_id is left.
C14_DeleteRemovesAssociations ==
    [][\A s \in Sessions :
          (pc[s] = "delete" /\ pc'[s] = "done") =>
              /\ obj[s].id \notin DOMAIN bookmarks'
              /\ \A p \in bookmark_tags' : p[1] # obj[s].id]_vars

\* C15: no step removes or renames a Tag row.
C15_TagRowsOnlyGrow ==
    [][\A i \in DOMAIN tags : i \in DOMAIN tags' /\ tags'[i] = tags[i]]_vars

\* an update has returned success and a Tag row is left that no BookmarkTag
\* row refers to
C15_Witness ==
    \E s \in Sessions, i \in DOMAIN tags :
        /\ pc[s] = "done" /\ result[s] = "success" /\ "row" \in DOMAIN obj[s]
        /\ obj[s].row.tags # strip(arg[s].tags)
        /\ \A p \in bookmark_tags : p[2] # i

\* C16: an update_bookmark that fails leaves bookmark rows, Tag rows,
\* BookmarkTag rows and the search index as they were before the call.
C16_FailedUpdateCommitsNothing ==
    [][\A s \in Sessions :
          (pc[s] = "update" /\ pc'[s] = "done" /\ result'[s] = "error")
              => UNCHANGED store]_vars

\* an update that asked for other tags has failed; the row still has the
\* tags it had, and its associations are the tokens of them
C16_Witness ==
    \E s \in Sessions :
        /\ pc[s] = "done" /\ result[s] = "error" /\ "url" \in DOMAIN arg[s]
        /\ obj[s].id \in DOMAIN bookmarks
        /\ bookmarks[obj[s].id].tags # strip(arg[s].tags)
        /\ bookmarks[obj[s].id].tags # <<>>
        /\ AssocNames(tags, bookmark_tags, obj[s].id) = Tokens(bookmarks[obj[s].id].tags)

\* C17: every stored visibility is public, authenticated or private; a create
\* or update that went through stored the value it was given when that is one
\* of the three, and public otherwise.
Stored(v) == IF v \in {"public", "authenticated", "private"} THEN v ELSE "public"

C17_VisibilityIsOneOfThree ==
    /\ \A i \in DOMAIN bookmarks :
          bookmarks[i].visibility \in {"public", "authenticated", "private"}
    /\ \A s \in Sessions :
          (pc[s] = "create_sync" \/ (pc[s] = "done" /\ result[s] = "success"))
              => bookmarks[obj[s].id].visibility = Stored(arg[s].given)

\* an update given an unknown visibility has turned a private bookmark public
C17_Witness ==
    \E s \in Sessions :
        /\ pc[s] = "done" /\ result[s] = "success"
        /\ arg[s].given \notin {"public", "authenticated", "private"}
        /\ obj[s].row.visibility = "private"
        /\ bookmarks[obj[s].id].visibility = "public"

\* C18: search_bookmarks returns the ranked ids that name an existing bookmark
\* the visibility filter selects, each once, in the order of the ranking.
Selected_by(vf, row) ==
    CASE vf.context = "public" -> row.visibility = "public"
      [] vf.context = "authenticated" -> row.visibility \in {"public", "authenticated"}
      [] vf.context = "owner" -> row.user_id = vf.owner_id
      [] vf.context = "profile_public" ->
            row.user_id = vf.owner_id /\ row.visibility = "public"
      [] vf.context = "profile_auth" ->
            row.user_id = vf.owner_id /\ row.visibility \in {"public", "authenticated"}

Pos(seq, x) == CHOOSE k \in DOMAIN seq : seq[k] = x

C18_SearchKeepsRankOrder ==
    (call.made /\ call.op = "search" /\ call.step = "fetched") =>
        LET ranked == call.matching_ids
            out == call.out
        IN  /\ Range(out) = {i \in Range(ranked) :
                               /\ i \in DOMAIN call.rows
                               /\ Selected_by(call.visibility, call.rows[i])}
            /\ \A a, b \in DOMAIN out :
                  a < b => Pos(ranked, out[a]) < Pos(ranked, out[b])

\* two ids ranked, the newer first; the older one was deleted before the rows
\* were fetched and is left out
C18_Witness ==
    /\ call.made /\ call.op = "search" /\ call.step = "fetched"
    /\ call.matching_ids = <<2, 1>>
    /\ 1 \notin DOMAIN call.rows
    /\ call.out = <<2>>

\* C19: the full-text index holds one entry per bookmark row, under the
\* bookmark id, with the row's current text, and no other entry.
C19_IndexMirrorsRows ==
    /\ DOMAIN fts = DOMAIN bookmarks
    /\ \A i \in DOMAIN bookmarks : fts[i] = bookmarks[i].tags

\* one session has changed the tags of a bookmark, the other has deleted one
C19_Witness ==
    \E s, t \in Sessions :
        /\ pc[s] = "done" /\ result[s] = "success" /\ obj[s].id \in DOMAIN bookmarks
        /\ obj[s].row.tags # bookmarks[obj[s].id].tags
        /\ pc[t] = "done" /\ result[t] = "deleted" /\ obj[t].id \notin DOMAIN bookmarks

\* C20: a Result carries a value, no errors and no kind, or no value, at least
\* one error and a kind; ok is true in the first case only.
C20_ValueXorErrors ==
    (call.made /\ call.op = "result") =>
        LET r == call.r
            carries_value  == r.value # None /\ r.errors = <<>> /\ r.error_kind = None
            carries_errors == r.value = None /\ r.errors # <<>> /\ r.error_kind # None
        IN  /\ carries_value \/ carries_errors
            /\ call.ok <=> carries_value

\* C21: for every profile owner p and viewer v (an integer id, or absent),
\* for_profile(p, v) is the owner filter of p when v = p, the profile filter
\* for authenticated viewers when v is present and differs from p, and the
\* profile filter for anonymous viewers when v is absent.
C21_ForProfileByViewer ==
    (call.made /\ call.op = "for_profile") =>
        LET p == call.profile_user_id
            v == call.viewer_id
        IN  call.out = CASE v = p -> VisibilityFilter("owner", p)
                         [] v # p /\ v # NoId -> VisibilityFilter("profile_auth", p)
                         [] OTHER -> VisibilityFilter("profile_public", p)

\* C22: validating an invite code and marking it used are atomic: of the
\* registrations running with one unused code at most one ends with an
\* account, used_by_user_id of a code is set once and never overwritten, and
\* a registration whose validate_and_use_code fails leaves no user row.
C22_InviteCodeUsedOnce ==
    [][/\ \A c \in DOMAIN invite_codes :
             invite_codes[c] # NoId => invite_codes'[c] = invite_codes[c]
       /\ \A s, t \in Sessions :
             (s # t /\ result'[s] = "success" /\ result'[t] = "success")
                 => upper(strip(arg'[s].invite_code)) # upper(strip(arg'[t].invite_code))
       /\ \A s \in Sessions :
             result'[s] = "invite_failure" => obj'[s].id \notin DOMAIN users'
      ]_vars

\* C23: the tag sync is idempotent: run a second time for the same bookmark
\* with the same tags string it leaves the Tag rows and the BookmarkTag rows
\* as the first run left them, and an update_bookmark that succeeds with the
\* tags the row already has leaves the bookmark's BookmarkTag rows unchanged.
C23_SyncIdempotent ==
    [][/\ \A id \in 1..MaxId, t \in TagPair :
             LET once  == sync_normalized_tags(tags, bookmark_tags, id, strip(t))
                 twice == sync_normalized_tags(once[1], once[2], id, strip(t))
             IN  twice = once
       /\ \A s \in Sessions :
             (/\ pc[s] = "update" /\ result'[s] = "success"
              /\ obj[s].id \in DOMAIN bookmarks
              /\ bookmarks[obj[s].id].tags = obj[s].row.tags
              /\ strip(arg'[s].tags) = obj[s].row.tags)
                 => {p \in bookmark_tags' : p[1] = obj[s].id}
                        = {p \in bookmark_tags : p[1] = obj[s].id}
      ]_vars

\* C24: through POST /bookmarks/{id}, DELETE /bookmarks/{id} and
\* GET /bookmarks/{id}/edit a bookmark is changed or deleted only by requests
\* of its owner: a request finds only a bookmark of the requester, and no step
\* of such a request changes the row, the BookmarkTag rows or the index entry
\* of a bookmark that belongs to another user.
C24_OnlyOwnerChanges ==
    [][\A s \in Sessions :
          /\ (pc[s] = "idle" /\ pc'[s] \in {"update", "delete"})
                 => bookmarks[obj'[s].id].user_id = arg'[s].user_id
          /\ (pc[s] = "idle" /\ result'[s] = "form")
                 => obj'[s].row.user_id = arg'[s].user_id
          /\ (pc[s] \in {"update", "delete"} /\ pc'[s] = "done")
                 => \A i \in DOMAIN bookmarks :
                       bookmarks[i].user_id # arg[s].user_id
                           => /\ i \in DOMAIN bookmarks' /\ bookmarks'[i] = bookmarks[i]
                              /\ {p \in bookmark_tags' : p[1] = i}
                                     = {p \in bookmark_tags : p[1] = i}
                              /\ i \in DOMAIN fts' /\ fts'[i] = fts[i]
      ]_vars

\* C25: saving never copies a private bookmark. A save of a private source by
\* a requester other than its owner is refused, a save of the requester's own
\* bookmark is refused, and a refused save creates no bookmark; a save that is
\* not refused goes on to create_bookmark, and the row it inserts belongs to
\* the requester, is private and carries the url and tags of a source that
\* was not private.
IsSave(a) == "source" \in DOMAIN a

C25_SaveNeverCopiesPrivate ==
    [][\A s \in Sessions :
          /\ (pc[s] = "idle" /\ IsSave(arg'[s])) =>
                LET b == arg'[s].bookmark_id
                    v == arg'[s].user_id
                IN  /\ store' = store
                    /\ (b \in DOMAIN bookmarks /\ bookmarks[b].user_id = v)
                          => pc'[s] = "done" /\ result'[s] = "own"
                    /\ (b \in DOMAIN bookmarks /\ bookmarks[b].user_id # v
                           /\ bookmarks[b].visibility = PRIVATE)
                          => pc'[s] = "done" /\ result'[s] = "forbidden"
                    /\ (b \in DOMAIN bookmarks /\ bookmarks[b].user_id # v
                           /\ bookmarks[b].visibility # PRIVATE)
                          => pc'[s] = "save"
          /\ (pc[s] = "create_insert" /\ pc'[s] = "create_sync" /\ IsSave(arg[s])) =>
                LET source == arg[s].source.row
                    copy   == bookmarks'[obj'[s].id]
                IN  /\ source.visibility # PRIVATE
                    /\ source.user_id # arg[s].user_id
                    /\ copy.user_id = arg[s].user_id
                    /\ copy.visibility = PRIVATE
                    /\ copy.url = source.url /\ copy.tags = source.tags
                    /\ DOMAIN bookmarks' = DOMAIN bookmarks \cup {obj'[s].id}
      ]_vars

\* one save was refused for a private source while another has made its copy
C25_Witness ==
    \E s, t \in Sessions :
        /\ IsSave(arg[s]) /\ result[s] = "forbidden"
        /\ IsSave(arg[t]) /\ result[t] = "success"

\* C26: the items of every page of list_bookmarks_paginated are in the order
\* (created_at descending, id descending), and with a valid cursor every item
\* of the page comes strictly after the cursor's position in that order.
C26_PageOrdered ==
    (call.made /\ call.out.raised = "none") =>
        LET items == call.out.page.items
            Key(i) == <<call.rows[i].created_at, i>>
            Later(k, l) == k[1] < l[1] \/ (k[1] = l[1] /\ k[2] < l[2])
        IN  /\ \A m, n \in DOMAIN items :
                  m < n => Later(Key(items[n]), Key(items[m]))
            /\ (call.cursor # NoCursor /\ call.decoded.value # None) =>
                  \A m \in DOMAIN items :
                      Later(Key(items[m]),
                            <<call.decoded.value.created_at, call.decoded.value.id.n>>)

\* C27: a traversal is stable under writes committed between its page
\* fetches: when it ends no bookmark has been returned on two pages, and
\* every bookmark of the listing that existed unchanged from the first fetch
\* to the last has been returned.
C27_TraversalStable ==
    trav.pc = "done" =>
        /\ IsDupFree(trav.seen)
        /\ trav.stable \subseteq Range(trav.seen)

\* C28: create_bookmark reports truthfully. When it returns CONFLICT no row
\* of the call is persisted: the conflict is returned before the call has
\* committed anything, never after its row was committed, and the step that
\* returns it leaves all tables as they were. When it returns success the
\* call has committed its row: success is returned only after the insert,
\* and the insert commits a row with the owner and url of the call.
C28_CreateReportsTruthfully ==
    [][\A s \in Sessions :
          /\ (pc[s] # "done" /\ pc'[s] = "done" /\ result'[s] = "conflict") =>
                /\ pc[s] # "create_sync"
                /\ store' = store
          /\ (pc[s] # "done" /\ pc'[s] = "done" /\ result'[s] = "success") =>
                pc[s] = "create_sync"
          /\ (pc[s] = "create_insert" /\ pc'[s] = "create_sync") =>
                /\ obj'[s].id \notin DOMAIN bookmarks
                /\ obj'[s].id \in DOMAIN bookmarks'
                /\ bookmarks'[obj'[s].id] = obj'[s].row
                /\ obj'[s].row.user_id = arg[s].user_id
                /\ obj'[s].row.url = arg[s].url
      ]_vars

\* two creates for one pair: one has answered CONFLICT while the row of the
\* other is committed and its tag sync still to come
C28_Witness ==
    \E s, t \in Sessions :
        /\ s # t /\ ~IsSave(arg[s]) /\ ~IsSave(arg[t])
        /\ pc[s] = "done" /\ result[s] = "conflict"
        /\ pc[t] = "create_sync" /\ SamePair(s, t)
        /\ arg[s].given # arg[t].given
        /\ obj[t].id \in DOMAIN bookmarks

\* C29: for every visibility filter and tag name t the count get_all_tags
\* reports for t is the number of distinct visible bookmarks whose tag set
\* contains t (a tags string that repeats t counts once), and the list is
\* sorted by count descending, then name ascending.
C29_TagCounts ==
    (call.made /\ call.op = "get_all_tags") =>
        LET out == call.out
            visible == {i \in DOMAIN call.rows : apply(call.visibility, call.rows[i])}
        IN  /\ \A k \in DOMAIN out :
                  out[k][2] = Cardinality({i \in visible :
                                             out[k][1] \in Tokens(call.rows[i].tags)})
            /\ \A k, l \in DOMAIN out :
                  k < l => \/ out[k][2] > out[l][2]
                           \/ (out[k][2] = out[l][2] /\ str_lt(out[k][1], out[l][1]))

\* C30: frame of a write. update_bookmark(b, ...) and delete_bookmark(b)
\* leave the row and the BookmarkTag rows of every bookmark other than b
\* unchanged, and update_bookmark leaves the id, user_id and created_at of
\* the row it writes as they were. A stored row is b when it has b's id,
\* user_id and created_at.
C30_WriteFrame ==
    [][\A s \in Sessions :
          (pc[s] \in {"update", "delete"} /\ pc'[s] = "done") =>
             LET b == obj[s]
                 IsB(i) == /\ i = b.id
                           /\ bookmarks[i].user_id = b.row.user_id
                           /\ bookmarks[i].created_at = b.row.created_at
             IN  /\ \A i \in DOMAIN bookmarks :
                       ~IsB(i) => /\ i \in DOMAIN bookmarks'
                                  /\ bookmarks'[i] = bookmarks[i]
                                  /\ {p \in bookmark_tags' : p[1] = i}
                                         = {p \in bookmark_tags : p[1] = i}
                 /\ (pc[s] = "update" /\ b.id \in DOMAIN bookmarks) =>
                       /\ b.id \in DOMAIN bookmarks'
                       /\ bookmarks'[b.id].user_id = bookmarks[b.id].user_id
                       /\ bookmarks'[b.id].created_at = bookmarks[b.id].created_at
      ]_vars

====
